---- MODULE Spec2Model ----
(***************************************************************************)
(* Price-alert bot (src/bot.py): the alert store, the chat handlers that   *)
(* create and delete alerts, and the repeating check_prices job that       *)
(* fetches prices, detects crossings, notifies and marks alerts.           *)
(*                                                                         *)
(* The bot runs on one asyncio event loop.  A handler's or the job's code  *)
(* between two awaits runs without interleaving; the only await inside     *)
(* check_prices is the one on send_message (line 155), so the chat         *)
(* handlers can run while the job is idle or suspended there.              *)
(***************************************************************************)
EXTENDS Integers, Sequences, FiniteSets

\* ---- bounds of the model ----
\* number of alerts ever inserted (ids 1..MaxAlerts)
MaxAlerts == 2
\* prices returned by the exchange are 1..MaxPrice
MaxPrice == 3

\* get_price returns None when fetch_ticker raises (line 137); None is
\* modelled by a number outside the prices
None == -1

Prices == 1..MaxPrice
PriceOrNone == Prices \cup {None}
Ids == 1..MaxAlerts
\* chat ids of the users
Chats == {1, 2}
\* the symbols get_available_symbols offers; get_price takes the symbol but
\* what it returns is the exchange's choice, so one symbol shows every case
Symbols == {"BTC-PERP"}
\* user_data without the key 'selected_symbol'
NoSymbol == "-"
\* message texts and command arguments, as sequences of characters
Texts == {<<"2">>, <<"2", "x">>}
\* the texts of Texts and the word float() reads as not-a-number
PriceTexts == Texts \cup {<<"n", "a", "n">>}
Args == {<<>>, <<<<"1">>>>, <<<<"2">>>>, <<<<"x">>>>}
\* raised by float() and int() on a text that is no number
ValueError == -2
\* no exception
NoError == "-"
\* no chat: no update handler is suspended
NoChat == 0

VARIABLES
    alerts_collection,  \* the MongoDB collection: _id -> document
    nextId,             \* the next _id insert_one assigns
    user_data,          \* per chat: context.user_data['selected_symbol']
    pc,                 \* check_prices: "idle", "running", "sending" (at the await)
    alerts,             \* check_prices: the documents its query returned
    log,                \* check_prices: per document handled so far, what was done
    raised,             \* the exception that ended the job's last run, or NoError
    notified,           \* per _id: number of send_message calls that returned
    replying            \* the chat whose handle_price_input is at its await of
                        \* line 92, or NoChat

vars == <<alerts_collection, nextId, user_data, pc, alerts, log, raised, notified,
          replying>>

\* ---- helpers ----
Last(s) == s[Len(s)]

RECURSIVE SortedSeq(_)
\* the elements of a finite set of integers in ascending order
SortedSeq(S) ==
    IF S = {} THEN <<>>
    ELSE LET m == CHOOSE x \in S : \A y \in S : x <= y
         IN <<m>> \o SortedSeq(S \ {m})

IsDigit(ch) == ch \in {"0", "1", "2", "3", "4", "5", "6", "7", "8", "9"}

DigitVal(ch) ==
    CASE ch = "0" -> 0 [] ch = "1" -> 1 [] ch = "2" -> 2 [] ch = "3" -> 3
      [] ch = "4" -> 4 [] ch = "5" -> 5 [] ch = "6" -> 6 [] ch = "7" -> 7
      [] ch = "8" -> 8 [] ch = "9" -> 9

RECURSIVE Decimal(_)
Decimal(text) ==
    IF text = <<>> THEN 0
    ELSE 10 * Decimal(SubSeq(text, 1, Len(text) - 1)) + DigitVal(Last(text))

\* float("nan"): the float that is not a number
NaN == -3

\* float(update.message.text), line 76, on texts of digits and the letters
\* a, n, x: float() takes a run of digits and the word nan, and raises
\* ValueError on the rest
ParseFloat(text) ==
    IF text # <<>> /\ \A i \in 1..Len(text) : IsDigit(text[i])
    THEN Decimal(text)
    ELSE IF text = <<"n", "a", "n">> THEN NaN
    ELSE ValueError

\* int(context.args[0]), line 117, on texts of digits and letters
ParseInt(text) ==
    IF text # <<>> /\ \A i \in 1..Len(text) : IsDigit(text[i])
    THEN Decimal(text) ELSE ValueError

\* ---- the store ----
\* ActiveFilter with the 'alerted' condition dropped from the query
ActiveFilter_NoCondition(doc) == TRUE

\* find({'alerted': False}), line 141: the filter of the job's query
ActiveFilter(doc) == ~doc.alerted

\* OwnerFilter with the 'alerted' condition dropped from the query
OwnerFilter_AnyState(doc, chat_id) == doc.chat_id = chat_id

\* OwnerFilter with the 'chat_id' condition dropped from the query
OwnerFilter_AnyChat(doc, chat_id) == ~doc.alerted

\* find({'chat_id': chat_id, 'alerted': False}), lines 103 and 118
OwnerFilter(doc, chat_id) == doc.chat_id = chat_id /\ ~doc.alerted

\* the documents of a set of _ids, in the collection's natural (insertion) order
Docs(S) == LET ids == SortedSeq(S) IN [k \in 1..Len(ids) |-> alerts_collection[ids[k]]]

find_active ==
    Docs({id \in DOMAIN alerts_collection : ActiveFilter(alerts_collection[id])})

find_owner(chat_id) ==
    Docs({id \in DOMAIN alerts_collection : OwnerFilter(alerts_collection[id], chat_id)})

\* insert_one(alert), line 90
insert_one(coll, doc) ==
    [id \in DOMAIN coll \cup {doc.id} |-> IF id = doc.id THEN doc ELSE coll[id]]

\* delete_one({'_id': alert_id}), line 122
delete_one(coll, id) == [i \in DOMAIN coll \ {id} |-> coll[i]]

\* update_one({'_id': id}, {'$set': {'alerted': True}}), line 161: no match, no change
set_alerted(coll, id) ==
    IF id \in DOMAIN coll THEN [coll EXCEPT ![id].alerted = TRUE] ELSE coll

\* set_last_price as an upsert: a missing _id gets a new document
set_last_price_Upsert(coll, id, p) ==
    IF id \in DOMAIN coll THEN [coll EXCEPT ![id].last_price = p]
    ELSE [i \in DOMAIN coll \cup {id} |->
             IF i = id
             THEN [id |-> id, chat_id |-> 0, symbol |-> NoSymbol, price |-> None,
                   alerted |-> FALSE, last_price |-> p]
             ELSE coll[i]]

\* set_last_price writing the fetched price into the target field
set_last_price_WritesTarget(coll, id, p) ==
    IF id \in DOMAIN coll THEN [coll EXCEPT ![id].price = p] ELSE coll

\* update_one({'_id': id}, {'$set': {'last_price': p}}), line 164
set_last_price(coll, id, p) ==
    IF id \in DOMAIN coll THEN [coll EXCEPT ![id].last_price = p] ELSE coll

\* ---- the crossing test, line 153 ----
\* (every comparison with a nan target is false)
Crossed(last_price, target_price, current_price) ==
    /\ target_price # NaN
    /\ \/ last_price > target_price /\ current_price <= target_price
       \/ last_price < target_price /\ current_price >= target_price

\* ---- initial state ----
Init ==
    /\ alerts_collection = <<>>
    /\ nextId = 1
    /\ user_data = [c \in Chats |-> NoSymbol]
    /\ pc = "idle"
    /\ alerts = <<>>
    /\ log = <<>>
    /\ raised = NoError
    /\ notified = [id \in Ids |-> 0]
    /\ replying = NoChat

\* the chat handlers run only while the job is not between two of its awaits
HandlersMayRun == pc \in {"idle", "sending"}

\* Application.builder().token(TOKEN).build(), line 169, leaves
\* concurrent_updates off: the application takes the next update only when
\* the handler of the one before has ended
NextUpdateTaken == HandlersMayRun /\ replying = NoChat

\* ---- chat handlers ----
\* button_click, lines 58-69
button_click(c, symbol) ==
    /\ NextUpdateTaken
    /\ user_data' = [user_data EXCEPT ![c] = symbol]
    /\ UNCHANGED <<alerts_collection, nextId, pc, alerts, log, raised, notified, replying>>

\* NewAlert with the flag initialised to True
NewAlert_Alerted(id, chat_id, symbol, price, current_price) ==
    [id |-> id, chat_id |-> chat_id, symbol |-> symbol, price |-> price,
     alerted |-> TRUE, last_price |-> current_price]

\* the document handle_price_input builds, lines 83-89
NewAlert(id, chat_id, symbol, price, current_price) ==
    [id |-> id, chat_id |-> chat_id, symbol |-> symbol, price |-> price,
     alerted |-> FALSE, last_price |-> current_price]

\* handle_price_input, lines 72-98, up to its await of reply_text at line 92
\* or to its end; get_price (line 80) returns any price or None. After
\* insert_one the handler is suspended at line 92 with the symbol still
\* selected.
handle_price_input(c, text) ==
    /\ NextUpdateTaken
    /\ IF user_data[c] # NoSymbol /\ ParseFloat(text) # ValueError
       THEN /\ nextId <= MaxAlerts
            /\ \E current_price \in PriceOrNone :
                   alerts_collection' = insert_one(alerts_collection,
                       NewAlert(nextId, c, user_data[c], ParseFloat(text), current_price))
            /\ nextId' = nextId + 1
            /\ replying' = c
       ELSE UNCHANGED <<alerts_collection, nextId, replying>>
    /\ UNCHANGED <<user_data, pc, alerts, log, raised, notified>>

\* reply_text of line 92 returns: line 93, context.user_data.clear(), runs
reply_text_returns ==
    /\ HandlersMayRun
    /\ replying # NoChat
    /\ user_data' = [user_data EXCEPT ![replying] = NoSymbol]
    /\ replying' = NoChat
    /\ UNCHANGED <<alerts_collection, nextId, pc, alerts, log, raised, notified>>

\* reply_text of line 92 raises (no ValueError, line 95 does not catch it):
\* the handler ends before line 93
reply_text_raises ==
    /\ HandlersMayRun
    /\ replying # NoChat
    /\ replying' = NoChat
    /\ UNCHANGED <<alerts_collection, nextId, user_data, pc, alerts, log, raised, notified>>

\* list_alerts, lines 101-111: the documents the reply lists
list_alerts(c) == find_owner(c)

\* delete_alert, lines 114-128
delete_alert(c, args) ==
    /\ NextUpdateTaken
    /\ IF args # <<>> /\ ParseInt(args[1]) # ValueError
       THEN LET idx == ParseInt(args[1]) - 1
                mine == find_owner(c)
            IN IF 0 <= idx /\ idx < Len(mine)
               THEN alerts_collection' = delete_one(alerts_collection, mine[idx + 1].id)
               ELSE UNCHANGED alerts_collection
       ELSE UNCHANGED alerts_collection
    /\ UNCHANGED <<nextId, user_data, pc, alerts, log, raised, notified, replying>>

\* ---- the repeating job ----
\* the job's run ends: its locals are gone
Return(exc) ==
    /\ pc' = "idle"
    /\ alerts' = <<>>
    /\ log' = <<>>
    /\ raised' = exc

\* the loop goes on to the next document, or ends after the last one
Continue(entry) ==
    IF Len(log) + 1 >= Len(alerts)
    THEN Return(NoError)
    ELSE /\ pc' = "running"
         /\ log' = Append(log, entry)
         /\ UNCHANGED <<alerts, raised>>

\* The scheduling model of the specification (section 5): one evaluation
\* cycle at a time, the next cycle does not start before the previous one has
\* completed. bot.py has no such test of its own: line 180 only calls
\* job_queue.run_repeating(check_prices, interval=30), and whether a run that
\* is due during another is skipped is decided by the job queue's scheduler.
MaxInstancesReached == pc # "idle"

\* check_prices, line 141 and the first fetch of the cursor at line 143
check_prices_start ==
    /\ ~MaxInstancesReached
    /\ IF find_active = <<>>
       THEN Return(NoError)
       ELSE /\ pc' = "running"
            /\ alerts' = find_active
            /\ log' = <<>>
            /\ raised' = NoError
    /\ UNCHANGED <<alerts_collection, nextId, user_data, notified, replying>>

\* OnFetchFailed with the loop left instead of continued
OnFetchFailed_Break ==
    /\ Return(NoError)
    /\ UNCHANGED alerts_collection

\* lines 149-150: get_price returned None, continue with the next document
OnFetchFailed ==
    /\ Continue([cur |-> None, out |-> "skip"])
    /\ UNCHANGED alerts_collection

\* OnCrossing with the alert marked before send_message is awaited
OnCrossing_MarkFirst(alert, current_price) ==
    /\ pc' = "sending"
    /\ log' = Append(log, [cur |-> current_price, out |-> "sending"])
    /\ alerts_collection' = set_alerted(alerts_collection, alert.id)
    /\ UNCHANGED <<alerts, raised>>

\* lines 153-158: the price crossed, send_message is called and awaited;
\* nothing is written before the call returns
OnCrossing(alert, current_price) ==
    /\ pc' = "sending"
    /\ log' = Append(log, [cur |-> current_price, out |-> "sending"])
    /\ UNCHANGED <<alerts_collection, alerts, raised>>

\* one pass of the loop body, lines 143-164, up to the await or the end of the body
check_prices_step(current_price) ==
    /\ pc = "running"
    /\ LET alert == alerts[Len(log) + 1] IN
       IF current_price = None
       THEN OnFetchFailed
       ELSE IF alert.last_price = None
       THEN \* line 153: None > float raises TypeError, which ends the job's run
            /\ Return("TypeError")
            /\ UNCHANGED alerts_collection
       ELSE IF Crossed(alert.last_price, alert.price, current_price)
       THEN \* line 155: await send_message
            OnCrossing(alert, current_price)
       ELSE \* line 164
            /\ Continue([cur |-> current_price, out |-> "none"])
            /\ alerts_collection' = set_last_price(alerts_collection, alert.id, current_price)
    /\ UNCHANGED <<nextId, user_data, notified, replying>>

\* send_message returns: lines 161 and 164 run
send_message_returns ==
    /\ pc = "sending"
    /\ LET alert == alerts[Len(log)]
           cur == Last(log).cur
       IN /\ alerts_collection' =
                 set_last_price(set_alerted(alerts_collection, alert.id), alert.id, cur)
          /\ notified' = [notified EXCEPT ![alert.id] = @ + 1]
          /\ IF Len(log) >= Len(alerts)
             THEN Return(NoError)
             ELSE /\ pc' = "running"
                  /\ log' = [log EXCEPT ![Len(log)].out = "cross"]
                  /\ UNCHANGED <<alerts, raised>>
    /\ UNCHANGED <<nextId, user_data, replying>>

\* send_message raises (a telegram error): the exception leaves check_prices
send_message_raises ==
    /\ pc = "sending"
    /\ Return("DeliveryError")
    /\ UNCHANGED <<alerts_collection, nextId, user_data, notified, replying>>

Next ==
    \/ \E c \in Chats, s \in Symbols : button_click(c, s)
    \/ \E c \in Chats, t \in Texts : handle_price_input(c, t)
    \/ reply_text_returns
    \/ reply_text_raises
    \/ \E c \in Chats, a \in Args : delete_alert(c, a)
    \/ check_prices_start
    \/ \E p \in PriceOrNone : check_prices_step(p)
    \/ send_message_returns
    \/ send_message_raises

Spec == Init /\ [][Next]_vars

\* The program with the price texts that float() accepts without their being
\* a number among the messages a chat sends.
InputNext ==
    \/ \E c \in Chats, s \in Symbols : button_click(c, s)
    \/ \E c \in Chats, t \in PriceTexts : handle_price_input(c, t)
    \/ reply_text_returns
    \/ reply_text_raises
    \/ \E c \in Chats, a \in Args : delete_alert(c, a)
    \/ check_prices_start
    \/ \E p \in PriceOrNone : check_prices_step(p)
    \/ send_message_returns
    \/ send_message_raises

InputSpec == Init /\ [][InputNext]_vars

\* The scenario of one alert already created below its target: the state
\* after button_click and handle_price_input("2") with a seed price under 2.
ScenarioInit ==
    /\ \E c \in Chats, s \in Symbols, seed \in Prices :
          /\ seed < ParseFloat(<<"2">>)
          /\ alerts_collection =
                 insert_one(<<>>, NewAlert(1, c, s, ParseFloat(<<"2">>), seed))
    /\ nextId = 2
    /\ user_data = [c \in Chats |-> NoSymbol]
    /\ pc = "idle"
    /\ alerts = <<>>
    /\ log = <<>>
    /\ raised = NoError
    /\ notified = [id \in Ids |-> 0]
    /\ replying = NoChat

ScenarioSpec == ScenarioInit /\ [][Next]_vars

\* The job queue runs check_prices again and again (a run that ended with an
\* exception is scheduled again like any other), a started run goes on until
\* it returns, raises or awaits, and an awaited send_message or reply_text
\* call ends.
Fairness ==
    /\ WF_vars(check_prices_start)
    /\ WF_vars(\E p \in PriceOrNone : check_prices_step(p))
    /\ WF_vars(send_message_returns \/ send_message_raises)
    /\ WF_vars(reply_text_returns \/ reply_text_raises)

FairSpec == Init /\ [][Next]_vars /\ Fairness

\* ---- vocabulary of the properties ----
Stored == DOMAIN alerts_collection

\* the _ids check_prices has still to handle in its current run
Pending == {alerts[k].id : k \in (Len(log) + 1)..Len(alerts)}

\* the _id check_prices is awaiting send_message for
Sending == alerts[Len(log)].id

\* the document the loop body is about to handle
Current == alerts[Len(log) + 1]

\* the await on send_message is over: it returned or raised
AwaitOver == pc = "sending" /\ pc' # "sending"

\* the _ids list_alerts shows to a chat
Listed(c) == {list_alerts(c)[k].id : k \in 1..Len(list_alerts(c))}

Triggered(id) == id \in Stored /\ alerts_collection[id].alerted

\* C1: once an alert's alerted flag is true, no run of check_prices enumerates
\* it or evaluates it, list_alerts does not show it, and no notification is
\* sent for it any more; so no alert id ever gets more than one notification.
C1_AtMostOnce ==
    /\ [](\A id \in Ids : notified[id] <= 1)
    /\ [](\A id \in Stored : Triggered(id) =>
             /\ id \notin Pending
             /\ pc = "sending" => Sending # id
             /\ \A c \in Chats : id \notin Listed(c))
    /\ [][\A id \in Stored : Triggered(id) =>
             /\ notified'[id] = notified[id]
             /\ \A k \in 1..Len(alerts') : alerts'[k].id = id => alerts' = alerts]_vars

\* C1 witness: an alert is triggered and notified once, and a later run of
\* check_prices, which did not enumerate it, is at work on another alert.
C1_Witness ==
    \E id \in Stored :
        /\ Triggered(id) /\ notified[id] = 1
        /\ pc = "running"
        /\ \A k \in 1..Len(alerts) : alerts[k].id # id

\* C2: alerted is false in every newly inserted document, and in a stored
\* document it only ever changes from false to true.
C2_Monotonic ==
    [][/\ \A id \in Stored \cap DOMAIN alerts_collection' :
             alerts_collection[id].alerted => alerts_collection'[id].alerted
       /\ \A id \in DOMAIN alerts_collection' \ Stored :
             ~alerts_collection'[id].alerted]_vars

\* C2 witness: a triggered alert is still triggered after a later alert was
\* inserted, and the later alert is untriggered.
C2_Witness ==
    \E id \in Stored, later \in Stored :
        /\ later > id
        /\ Triggered(id)
        /\ ~Triggered(later)

\* C3: for an active alert with a non-null last_price and a fetched price,
\* check_prices sends a notification and marks the alert triggered in that
\* run if and only if last_price and the fetched price lie on the two sides
\* of the target as line 153 says.
C3_Claim ==
    [][/\ \A p \in Prices :
             (check_prices_step(p) /\ Current.last_price # None) =>
                 (pc' = "sending" <=> Crossed(Current.last_price, Current.price, p))
       /\ AwaitOver =>
             /\ notified'[Sending] = notified[Sending] + 1
             /\ Sending \in DOMAIN alerts_collection' =>
                    alerts_collection'[Sending].alerted
       /\ \A id \in Stored \cap DOMAIN alerts_collection' :
             (~alerts_collection[id].alerted /\ alerts_collection'[id].alerted) =>
                 (pc = "sending" /\ Sending = id)]_vars

\* C4: when the send for a crossing raises, the alert is still marked
\* triggered in that run (and so, being triggered, is never retried).
C4_Claim ==
    [][(pc = "sending" /\ raised' = "DeliveryError") =>
          (Sending \in DOMAIN alerts_collection' =>
               alerts_collection'[Sending].alerted)]_vars

\* C5: a failed fetch for an alert leaves the store and the notifications as
\* they are, raises nothing, and the run goes on with the next document of its
\* query; an alert handled later in a run that had a failed fetch is evaluated
\* on its own values: a send starts iff it crossed, else last_price is written.
C5_FetchFailureIsolated ==
    [][/\ check_prices_step(None) =>
             /\ alerts_collection' = alerts_collection
             /\ notified' = notified
             /\ raised' = NoError
             /\ Len(log) + 1 < Len(alerts) =>
                    /\ pc' = "running"
                    /\ alerts' = alerts
                    /\ Len(log') = Len(log) + 1
       /\ \A p \in Prices :
             (/\ check_prices_step(p)
              /\ \E k \in 1..Len(log) : log[k].out = "skip"
              /\ Current.last_price # None) =>
                 IF Crossed(Current.last_price, Current.price, p)
                 THEN pc' = "sending" /\ Last(log').cur = p
                 ELSE /\ raised' = NoError
                      /\ Current.id \in Stored =>
                             alerts_collection'[Current.id].last_price = p]_vars

\* C5 witness: in one run the fetch for the first alert failed, the alert is
\* as it was, and the second alert was evaluated and is being notified.
C5_Witness ==
    /\ pc = "sending"
    /\ Len(log) = 2
    /\ log[1].out = "skip"
    /\ alerts[1].id \in Stored
    /\ alerts_collection[alerts[1].id] = alerts[1]
    /\ notified[alerts[1].id] = 0

\* C6: for an active alert whose last_price is null, a run whose fetch
\* succeeds sends nothing, leaves the alert untriggered and raises no error.
C6_Claim ==
    [][\A p \in Prices :
          (check_prices_step(p) /\ Current.last_price = None) =>
              /\ pc' # "sending"
              /\ notified' = notified
              /\ raised' = NoError
              /\ Current.id \in Stored => ~alerts_collection'[Current.id].alerted]_vars

\* C7: when the fetch for an enumerated alert succeeds, then once the loop
\* body is done with the alert its stored last_price is the fetched price,
\* whether it crossed, did not cross or had no prior observation.
C7_Claim ==
    [][/\ \A p \in Prices :
             (check_prices_step(p) /\ pc' # "sending"
                  /\ Current.id \in DOMAIN alerts_collection') =>
                 alerts_collection'[Current.id].last_price = p
       /\ (AwaitOver /\ Sending \in DOMAIN alerts_collection') =>
             alerts_collection'[Sending].last_price = Last(log).cur]_vars

\* the _ids of the documents of the current run's query
Enumerated == {alerts[k].id : k \in 1..Len(alerts)}

\* C8: for the alert seeded strictly below its target, a run that fetches a
\* price equal to the target sends exactly one notification and sets the
\* alert triggered: the pass of the loop that called send_message ends with
\* one notification delivered and the alert, if still stored, marked; and
\* once it is so triggered (its last_price being the target), a following run
\* that fetches a different price for the symbol sends no new notification
\* and makes that price the alert's last_price.
C8_Claim ==
    [][/\ \A p \in Prices :
             (/\ check_prices_step(p)
              /\ Current.id = 1
              /\ Current.last_price # None
              /\ p = Current.price) =>
                 (pc' = "sending" /\ alerts'[Len(log')].id = 1)
       /\ (AwaitOver /\ Sending = 1 /\ Last(log).cur = alerts[Len(log)].price) =>
             /\ notified'[1] = 1
             /\ 1 \in DOMAIN alerts_collection' => alerts_collection'[1].alerted
       /\ \A p \in Prices :
             (/\ Triggered(1)
              /\ alerts_collection[1].last_price = alerts_collection[1].price
              /\ notified[1] = 1
              /\ check_prices_step(p)
              /\ 1 \notin Enumerated
              /\ Current.symbol = alerts_collection[1].symbol
              /\ Current.last_price # None
              /\ p # alerts_collection[1].price) =>
                 /\ notified'[1] = 1
                 /\ alerts_collection'[1].last_price = p]_vars

\* the _ids that were inserted and have been deleted
Deleted == (1..(nextId - 1)) \ Stored

\* C9: when delete_alert removes an alert while a run of check_prices is
\* suspended at its await, no send_message call is started afterwards for the
\* deleted alert (so none is delivered), and the run does not raise on it
\* (said of an alert with a prior observation: C6 is about the others).
C9_Claim ==
    [][\A id \in Deleted :
          (pc = "running" /\ Current.id = id) =>
              /\ pc' # "sending"
              /\ Current.last_price # None => raised' = NoError]_vars

\* an alert that is stored and untriggered
Active(id) == id \in Stored /\ ~alerts_collection[id].alerted

\* C10: under repeated runs, every alert that stays active and stored is
\* eventually evaluated; stated through what evaluation needs first: the
\* alert eventually is the document the loop body fetches a price for.
C10_Claim ==
    \A id \in Ids :
        [](Active(id) => <>(~Active(id) \/ (pc = "running" /\ Current.id = id)))

\* C12: once delete_alert has removed a document, the run's updates on that
\* _id (lines 161 and 164) change nothing and raise nothing, whether the run
\* was at its await for that alert or still had it ahead; the _id never is in
\* the store again.
C12_DeleteWins ==
    [][/\ \A id \in Deleted : id \notin DOMAIN alerts_collection'
       /\ (AwaitOver /\ Sending \in Deleted /\ raised' # "DeliveryError") =>
             /\ alerts_collection' = alerts_collection
             /\ raised' = NoError
       /\ \A p \in Prices :
             (/\ check_prices_step(p)
              /\ Current.id \in Deleted
              /\ Current.last_price # None) =>
                 /\ alerts_collection' = alerts_collection
                 /\ raised' = NoError]_vars

\* C12 witness: the alert was deleted while the run awaited its send; the send
\* has returned, the two updates have run, and the run goes on.
C12_Witness ==
    /\ pc = "running"
    /\ log # <<>>
    /\ Last(log).out = "cross"
    /\ alerts[Len(log)].id \in Deleted

\* some chat has an ordinal k for which /deletealert k removes the alert:
\* delete_alert removes the k-th document of its query (lines 118-122), so
\* the alert has to match that query for some chat
CanBeDeleted(id) ==
    \E c \in Chats : id \in Stored /\ OwnerFilter(alerts_collection[id], c)

\* a step that removes the alert is a delete_alert of the alert's owner
RemovedOnlyByOwner(id) ==
    (id \in Stored /\ id \notin DOMAIN alerts_collection') =>
        \E a \in Args : delete_alert(alerts_collection[id].chat_id, a)

\* C13 as stated: every stored alert, active or triggered, can be deleted by
\* a delete_alert command, and nothing but that command removes a document.
C13_Original ==
    /\ [](\A id \in Stored : CanBeDeleted(id))
    /\ [][\A id \in Ids : RemovedOnlyByOwner(id)]_vars

\* C13 amended: an alert can be deleted by delete_alert exactly while it is
\* active; once triggered it is not among the documents delete_alert looks
\* at and no command removes it; nothing but delete_alert removes a document.
C13_Amended ==
    /\ [](\A id \in Stored : CanBeDeleted(id) <=> ~alerts_collection[id].alerted)
    /\ [][DOMAIN alerts_collection' # Stored =>
             \A id \in Ids :
                /\ RemovedOnlyByOwner(id)
                /\ Triggered(id) => id \in DOMAIN alerts_collection']_vars

\* C13 witness: one alert has been deleted while active, and a triggered
\* alert is stored, which no command can remove.
C13_Witness ==
    /\ Deleted # {}
    /\ \E id \in Stored : Triggered(id) /\ ~CanBeDeleted(id)

\* C14: send_message is called, and has returned, before the alert is marked:
\* the flag is set only by the step that resumes from the await for that
\* alert, so every triggered alert has had its notification sent.
C14_SendBeforeMark ==
    /\ [](\A id \in Stored : Triggered(id) => notified[id] >= 1)
    /\ [][\A id \in Stored \cap DOMAIN alerts_collection' :
             (~alerts_collection[id].alerted /\ alerts_collection'[id].alerted) =>
                 /\ pc = "sending"
                 /\ Sending = id
                 /\ notified'[id] = notified[id] + 1]_vars

\* C14 witness: an alert is triggered, its notification having been sent in
\* the run that fetched the price now stored as its last_price.
C14_Witness ==
    \E id \in Stored :
        /\ Triggered(id)
        /\ notified[id] = 1
        /\ alerts_collection[id].last_price # None
        /\ Crossed(1, alerts_collection[id].price, alerts_collection[id].last_price)

\* a step of a chat handler: the job is idle or suspended at its await before
\* and after the step, at the same place
HandlerStep == HandlersMayRun /\ pc' = pc /\ log' = log

\* the identity fields of a stored document
Identity(doc) == <<doc.id, doc.chat_id, doc.symbol, doc.price>>

\* C15: frame. No step changes the id, chat_id, symbol or target price of an
\* alert that stays stored; a step of check_prices neither adds nor removes a
\* record and writes at most alerted and last_price; a handler step only
\* inserts or removes whole records, every record it keeps is left as it was.
C15_Frame ==
    [][alerts_collection' # alerts_collection =>
          /\ \A id \in Stored \cap DOMAIN alerts_collection' :
                /\ alerts_collection'[id].id = id
                /\ Identity(alerts_collection'[id]) = Identity(alerts_collection[id])
                /\ HandlerStep => alerts_collection'[id] = alerts_collection[id]
          /\ ~HandlerStep => DOMAIN alerts_collection' = Stored
          /\ \A id \in DOMAIN alerts_collection' \ Stored :
                /\ alerts_collection'[id].id = id
                /\ alerts_collection'[id].chat_id \in Chats]_vars

\* C15 witness: check_prices has written both of its fields on one alert and
\* the handlers have inserted two records and removed one of them.
C15_Witness ==
    /\ Deleted # {}
    /\ \E id \in Stored :
          /\ alerts_collection[id].alerted
          /\ alerts_collection[id].last_price \in Prices
          /\ alerts_collection[id].price \in Prices

\* a text that writes a number
Numeric(text) == text # <<>> /\ \A i \in 1..Len(text) : IsDigit(text[i])

\* C16: a handle_price_input call whose text is not numeric, or made with no
\* symbol selected, leaves the store unchanged, and every stored alert has a
\* number as its target price.
C16_Claim ==
    /\ [](\A id \in Stored : alerts_collection[id].price \in Nat)
    /\ [][\A c \in Chats, text \in PriceTexts :
             (/\ handle_price_input(c, text)
              /\ ~Numeric(text) \/ user_data[c] = NoSymbol) =>
                 alerts_collection' = alerts_collection]_vars

\* the side of the target a price is on: 1 above, -1 below, 0 on it
Side(price, target_price) ==
    IF price > target_price THEN 1 ELSE IF price < target_price THEN -1 ELSE 0

\* the alert is stored and active before and after the step, and its
\* last_price before the step is strictly on one side of its target
StaysActiveOffTarget(id) ==
    /\ Active(id)
    /\ id \in DOMAIN alerts_collection'
    /\ ~alerts_collection'[id].alerted
    /\ alerts_collection[id].last_price # None
    /\ Side(alerts_collection[id].last_price, alerts_collection[id].price) # 0

\* C17: while an alert stays active its stored last_price does not leave the
\* strict side of the target it is on; a run that fetches a price on the
\* target or on the other side triggers the alert in that pass of the loop:
\* send_message is called and the pass ends with the alert marked.
C17_Claim ==
    [][/\ \A id \in Stored :
             StaysActiveOffTarget(id) =>
                 Side(alerts_collection'[id].last_price, alerts_collection[id].price)
                     = Side(alerts_collection[id].last_price, alerts_collection[id].price)
       /\ \A p \in Prices :
             (/\ check_prices_step(p)
              /\ Current.last_price # None
              /\ Side(Current.last_price, Current.price) # 0
              /\ Side(p, Current.price) # Side(Current.last_price, Current.price)) =>
                 pc' = "sending"
       /\ (AwaitOver /\ Active(Sending)) => alerts_collection'[Sending].alerted]_vars

\* the argument of /deletealert names one of the alerts the chat's list shows
ValidOrdinal(c, args) ==
    /\ args # <<>>
    /\ Numeric(args[1])
    /\ Decimal(args[1]) \in 1..Len(list_alerts(c))

\* C18: a delete_alert call by chat c removes at most one record, which is
\* owned by c and untriggered when the call is made; it adds nothing and
\* leaves every other record as it was; with a missing, non-integer or
\* out-of-range ordinal it leaves the store unchanged (a call that changes
\* the store had an ordinal of the chat's list).
C18_DeleteOwnOne ==
    [][(HandlerStep /\ nextId' = nextId /\ alerts_collection' # alerts_collection) =>
          \A c \in Chats, args \in Args :
              delete_alert(c, args) =>
                  /\ ValidOrdinal(c, args)
                  /\ DOMAIN alerts_collection' \subseteq Stored
                  /\ Cardinality(Stored \ DOMAIN alerts_collection') = 1
                  /\ \A id \in Stored \ DOMAIN alerts_collection' :
                        /\ alerts_collection[id].chat_id = c
                        /\ ~alerts_collection[id].alerted
                  /\ \A id \in DOMAIN alerts_collection' :
                        alerts_collection'[id] = alerts_collection[id]]_vars

\* C18 witness: one of two alerts has been deleted by a delete_alert call and
\* the other is stored, active and evaluated, as it was before that call.
C18_Witness ==
    /\ Cardinality(Deleted) = 1
    /\ \E id \in Stored : Active(id) /\ alerts_collection[id].last_price # None
    /\ pc = "idle"

====
